---- MODULE Spec2Model ----
(***************************************************************************)
(* memfd-rs: the options builder, the Memfd handle, the seal codec and the *)
(* kernel state they act on (descriptor table, memfd objects, seal words). *)
(* A flag word is modelled as the set of its bit positions: `|` is \cup,   *)
(* `contains` is \subseteq, zero is {}.                                    *)
(***************************************************************************)
EXTENDS Integers, FiniteSets, Sequences, TLC

\* ---------------------------------------------------------------- bounds
\* Descriptors the process may hold at once (its RLIMIT_NOFILE): one where a
\* single memfd is followed with every input, several where handles coexist.
SoloFds == 1
ManyFds == 2
\* Longest name handed to create.
MaxNameLen == 1
\* Number of kernel seal bits above the four this library knows.
UnknownBits == 1

\* ---------------------------------------------------------------- sealing.rs
FileSeal == {"SealShrink", "SealGrow", "SealWrite", "SealSeal"}

\* rustix::fs::SealFlags (F_SEAL_SEAL = 1, SHRINK = 2, GROW = 4, WRITE = 8).
SealFlags_SEAL == {0}
SealFlags_SHRINK == {1}
SealFlags_GROW == {2}
SealFlags_WRITE == {3}
SealFlags_empty == {}

\* Every seal word the kernel can hand back.
SealWords == SUBSET (0 .. (3 + UnknownBits))

FileSeal_bitflags_swapped(seal) ==
    CASE seal = "SealSeal" -> SealFlags_SEAL
      [] seal = "SealShrink" -> SealFlags_SHRINK
      [] seal = "SealGrow" -> SealFlags_SHRINK
      [] seal = "SealWrite" -> SealFlags_WRITE

FileSeal_bitflags(seal) ==
    CASE seal = "SealSeal" -> SealFlags_SEAL
      [] seal = "SealShrink" -> SealFlags_SHRINK
      [] seal = "SealGrow" -> SealFlags_GROW
      [] seal = "SealWrite" -> SealFlags_WRITE

seals_to_bitflags_no_write(seals) ==
    UNION {FileSeal_bitflags(s) : s \in seals \ {"SealWrite"}}

\* bits = empty; for seal in seals { bits |= seal.bitflags() }
seals_to_bitflags(seals) ==
    SealFlags_empty \cup UNION {FileSeal_bitflags(s) : s \in seals}

bitflags_to_seals(bitflags) ==
    (IF SealFlags_SEAL \subseteq bitflags THEN {"SealSeal"} ELSE {})
    \cup (IF SealFlags_SHRINK \subseteq bitflags THEN {"SealShrink"} ELSE {})
    \cup (IF SealFlags_GROW \subseteq bitflags THEN {"SealGrow"} ELSE {})
    \cup (IF SealFlags_WRITE \subseteq bitflags THEN {"SealWrite"} ELSE {})

\* ---------------------------------------------------------------- memfd.rs: options
MFD_CLOEXEC == {0}
MFD_ALLOW_SEALING == {1}
MFD_HUGETLB == {2}

HugetlbSize == {"Huge64KB", "Huge512KB", "Huge1MB", "Huge2MB", "Huge8MB",
                "Huge16MB", "Huge256MB", "Huge1GB", "Huge2GB", "Huge16GB"}

\* nr::MFD_HUGE_*: log2 of the page size, shifted left by 26.
HugetlbSize_bitflags(size) ==
    CASE size = "Huge64KB" -> {30}
      [] size = "Huge512KB" -> {26, 27, 30}
      [] size = "Huge1MB" -> {28, 30}
      [] size = "Huge2MB" -> {26, 28, 30}
      [] size = "Huge8MB" -> {26, 27, 28, 30}
      [] size = "Huge16MB" -> {29, 30}
      [] size = "Huge256MB" -> {28, 29, 30}
      [] size = "Huge1GB" -> {27, 28, 29, 30}
      [] size = "Huge2GB" -> {26, 27, 28, 29, 30}
      [] size = "Huge16GB" -> {27, 31}

\* Option<HugetlbSize>
None == "None"

\* The page sizes the builder is given in the model.
HugetlbInputs == {"Huge2MB"}

MemfdOptions_default ==
    [allow_sealing |-> FALSE, cloexec |-> FALSE, hugetlb |-> None]

MemfdOptions_bitflags_inverted(o) ==
    (IF ~o.allow_sealing THEN MFD_ALLOW_SEALING ELSE {})
    \cup (IF o.cloexec THEN MFD_CLOEXEC ELSE {})
    \cup (IF o.hugetlb # None
          THEN HugetlbSize_bitflags(o.hugetlb) \cup MFD_HUGETLB ELSE {})

MemfdOptions_bitflags(o) ==
    (IF o.allow_sealing THEN MFD_ALLOW_SEALING ELSE {})
    \cup (IF o.cloexec THEN MFD_CLOEXEC ELSE {})
    \cup (IF o.hugetlb # None
          THEN HugetlbSize_bitflags(o.hugetlb) \cup MFD_HUGETLB ELSE {})

\* ---------------------------------------------------------------- names
\* A name is a sequence of bytes; 0 is the null byte, 97 stands for any other.
NameBytes == {0, 97}
Names == UNION {[1 .. n -> NameBytes] : n \in 0 .. MaxNameLen}

CString_new_unchecked(name) == "Ok"

\* ffi::CString::new(name): Err(NulError) iff the bytes hold a null byte.
CString_new(name) ==
    IF \E i \in 1 .. Len(name) : name[i] = 0 THEN "NulError" ELSE "Ok"

\* ---------------------------------------------------------------- state
VARIABLES
    opts,     \* the caller's MemfdOptions value
    vals,     \* the live owning values: Memfd and fs::File, each holding a RawFd
    fdtable,  \* kernel: the process's descriptor table
    objs,     \* kernel: the memfd object behind each descriptor, with its seal word
    limit,    \* kernel: how many descriptors the process may hold
    ret,      \* what the last operation was given and what it returned
    codec     \* the seal codec applied to a drawn set and a drawn seal word

vars == <<opts, vals, fdtable, objs, limit, ret, codec>>

FDs == 0 .. (ManyFds - 1)

Closed == "closed"

\* An object: its seal word, and (history) the allow_sealing it was asked with.
\* Nothing here duplicates a descriptor, so an object lives exactly as long as the
\* one descriptor memfd_create returned for it and is kept under that descriptor.
NoObj == [live |-> FALSE, seals |-> {}, allow_sealing |-> FALSE]
NoErr == [kind |-> "none", errno |-> "none"]

\* errors.rs: the error of a failed syscall, tagged with the call that failed.
SysError(kind, errno) == [kind |-> kind, errno |-> errno]

NoRet(op) ==
    [op |-> op, res |-> "none", err |-> NoErr, fd |-> -1, nsys |-> 0,
     sys |-> [r |-> 0, errno |-> "none"],
     name |-> <<>>, arg |-> {}, flags |-> {}, out |-> {}, cloexec |-> FALSE]

CodecOff == [pc |-> "off", set |-> {}, word |-> {}, enc |-> {}, dec |-> {}, wdec |-> {}]

\* What the environment does to one syscall.
CreateEnv == {"none", "EINTR"}
AddSealsEnv == {"none", "EINTR", "EBUSY"}
GetSealsEnv == {"none", "EINTR"}

\* ---------------------------------------------------------------- kernel
IsOpen(tbl, fd) == fd \in FDs /\ tbl[fd] # Closed

OpenFds(tbl) == {fd \in FDs : tbl[fd] # Closed}

FreeFds(tbl) == FDs \ OpenFds(tbl)

\* The kernel hands out the lowest unused descriptor.
LowestFree(tbl) == CHOOSE fd \in FreeFds(tbl) : \A g \in FreeFds(tbl) : fd <= g

\* Whether the process may open one more descriptor.
MayOpen(tbl, lim) == Cardinality(OpenFds(tbl)) < lim

\* syscall(SYS_memfd_create, name_ptr, flags): the descriptor, or -1 and errno.
sys_memfd_create(tbl, lim, flags, env) ==
    IF env # "none" THEN [r |-> -1, errno |-> env]
    ELSE IF ~MayOpen(tbl, lim) THEN [r |-> -1, errno |-> "EMFILE"]
    ELSE [r |-> LowestFree(tbl), errno |-> "none"]

\* The seal word of the object memfd_create makes: without MFD_ALLOW_SEALING it
\* starts as F_SEAL_SEAL.
InitialSeals(flags) ==
    IF MFD_ALLOW_SEALING \subseteq flags THEN {} ELSE SealFlags_SEAL

\* FD_CLOEXEC of the descriptor memfd_create returns, as fcntl(F_GETFD) reports it.
\* It is set at creation and nothing in this library changes it afterwards, so it
\* is recorded with the result of create.
fcntl_getfd_cloexec(flags) == MFD_CLOEXEC \subseteq flags

\* syscall(SYS_fcntl, fd, F_GET_SEALS): the seal word, or -1 and errno.
sys_fcntl_get_seals(tbl, os, fd, env) ==
    IF ~IsOpen(tbl, fd) THEN [r |-> -1, bits |-> {}, errno |-> "EBADF"]
    ELSE IF env # "none" THEN [r |-> -1, bits |-> {}, errno |-> env]
    ELSE IF tbl[fd] # "memfd" THEN [r |-> -1, bits |-> {}, errno |-> "EINVAL"]
    ELSE [r |-> 0, bits |-> os[fd].seals, errno |-> "none"]

\* syscall(SYS_fcntl, fd, F_ADD_SEALS, flags): 0, or -1 and errno; `seals` is the
\* object's seal word afterwards.
sys_fcntl_add_seals(tbl, os, fd, flags, env) ==
    IF ~IsOpen(tbl, fd) THEN [r |-> -1, errno |-> "EBADF", seals |-> {}]
    ELSE IF tbl[fd] # "memfd" THEN [r |-> -1, errno |-> "EINVAL", seals |-> {}]
    ELSE LET cur == os[fd].seals IN
         IF env = "EINTR" THEN [r |-> -1, errno |-> "EINTR", seals |-> cur]
         ELSE IF SealFlags_SEAL \subseteq cur
              THEN [r |-> -1, errno |-> "EPERM", seals |-> cur]
         ELSE IF env = "EBUSY" /\ SealFlags_WRITE \subseteq flags
                 /\ ~(SealFlags_WRITE \subseteq cur)
              THEN [r |-> -1, errno |-> "EBUSY", seals |-> cur]
         ELSE [r |-> 0, errno |-> "none", seals |-> cur \cup flags]

\* close(fd), as the drop of an owning fs::File issues it.
sys_close(tbl, fd) ==
    IF ~IsOpen(tbl, fd) THEN [r |-> -1, errno |-> "EBADF"]
    ELSE [r |-> 0, errno |-> "none"]

\* ---------------------------------------------------------------- memfd.rs: Memfd
Memfd_from_raw_fd_zero(fd) == [type |-> "Memfd", fd |-> 0]

\* Memfd { file: fs::File::from_raw_fd(fd) }
Memfd_from_raw_fd(fd) == [type |-> "Memfd", fd |-> fd]

File(fd) == [type |-> "File", fd |-> fd]

Memfds == {v \in vals : v.type = "Memfd"}
Files == {v \in vals : v.type = "File"}

\* Memfd::file_get_seals: Ok(r as u64) or Err(F_GET_SEALS error).
file_get_seals(tbl, os, fd, env) ==
    LET s == sys_fcntl_get_seals(tbl, os, fd, env) IN
    IF s.r < 0
    THEN [ok |-> FALSE, bits |-> {}, err |-> SysError("GetSeals", s.errno),
          sys |-> [r |-> s.r, errno |-> s.errno]]
    ELSE [ok |-> TRUE, bits |-> s.bits, err |-> NoErr,
          sys |-> [r |-> s.r, errno |-> s.errno]]

\* ---------------------------------------------------------------- initial state
\* Nothing created yet; the process may hold `lim` descriptors.
InitWith(lim) ==
    /\ opts = MemfdOptions_default
    /\ vals = {}
    /\ fdtable = [fd \in FDs |-> Closed]
    /\ objs = [fd \in FDs |-> NoObj]
    /\ limit = lim
    /\ ret = NoRet("init")
    /\ codec = CodecOff

Init == InitWith(SoloFds)

\* ---------------------------------------------------------------- options builder
\* MemfdOptions::new() / MemfdOptions::default()
MemfdOptions_new ==
    /\ opts' = MemfdOptions_default
    /\ ret' = NoRet("options")
    /\ UNCHANGED <<vals, fdtable, objs, limit, codec>>

allow_sealing(value) ==
    /\ opts' = [opts EXCEPT !.allow_sealing = value]
    /\ ret' = NoRet("options")
    /\ UNCHANGED <<vals, fdtable, objs, limit, codec>>

close_on_exec(value) ==
    /\ opts' = [opts EXCEPT !.cloexec = value]
    /\ ret' = NoRet("options")
    /\ UNCHANGED <<vals, fdtable, objs, limit, codec>>

hugetlb(size) ==
    /\ opts' = [opts EXCEPT !.hugetlb = size]
    /\ ret' = NoRet("options")
    /\ UNCHANGED <<vals, fdtable, objs, limit, codec>>

\* MemfdOptions::create(name)
create(name, env) ==
    IF CString_new(name) = "NulError"
    THEN /\ ret' = [NoRet("create") EXCEPT
                      !.res = "Err", !.name = name,
                      !.err = SysError("NameEncoding", "none")]
         /\ UNCHANGED <<opts, vals, fdtable, objs, limit, codec>>
    ELSE LET flags == MemfdOptions_bitflags(opts)
             s == sys_memfd_create(fdtable, limit, flags, env)
         IN  IF s.r < 0
             THEN /\ ret' = [NoRet("create") EXCEPT
                               !.res = "Err", !.name = name, !.nsys = 1,
                               !.flags = flags, !.sys = s,
                               !.err = SysError("Create", s.errno)]
                  /\ UNCHANGED <<opts, vals, fdtable, objs, limit, codec>>
             ELSE /\ fdtable' = [fdtable EXCEPT ![s.r] = "memfd"]
                  /\ objs' = [objs EXCEPT ![s.r] =
                               [live |-> TRUE, seals |-> InitialSeals(flags),
                                allow_sealing |-> opts.allow_sealing]]
                  /\ vals' = vals \cup {Memfd_from_raw_fd(s.r)}
                  /\ ret' = [NoRet("create") EXCEPT
                               !.res = "Ok", !.name = name, !.nsys = 1,
                               !.flags = flags, !.sys = s,
                               !.fd = Memfd_from_raw_fd(s.r).fd,
                               !.cloexec = fcntl_getfd_cloexec(flags)]
                  /\ UNCHANGED <<opts, limit, codec>>

\* ---------------------------------------------------------------- the caller's files
\* fs::File::open("/"): an open file that is no memfd.
open_root ==
    /\ MayOpen(fdtable, limit)
    /\ LET fd == LowestFree(fdtable) IN
         /\ fdtable' = [fdtable EXCEPT ![fd] = "dir"]
         /\ vals' = vals \cup {File(fd)}
         /\ ret' = [NoRet("open_root") EXCEPT !.res = "Ok", !.fd = fd]
    /\ UNCHANGED <<opts, objs, limit, codec>>

\* drop of an owning value: its fs::File closes the descriptor; the memfd object
\* goes with its only descriptor.
drop(v) ==
    /\ v \in vals
    /\ vals' = vals \ {v}
    /\ LET c == sys_close(fdtable, v.fd) IN
          /\ fdtable' = IF c.r < 0 THEN fdtable ELSE [fdtable EXCEPT ![v.fd] = Closed]
          /\ objs' = IF c.r < 0 THEN objs ELSE [objs EXCEPT ![v.fd] = NoObj]
          /\ ret' = [NoRet("drop") EXCEPT
                       !.res = IF c.r < 0 THEN "Err" ELSE "Ok", !.fd = v.fd,
                       !.nsys = 1, !.sys = c,
                       !.err = IF c.r < 0 THEN SysError("Close", c.errno) ELSE NoErr]
    /\ UNCHANGED <<opts, limit, codec>>

\* ---------------------------------------------------------------- Memfd operations
try_from_file_drops(fp, env) ==
    /\ fp \in Files
    /\ LET g == file_get_seals(fdtable, objs, fp.fd, env) IN
         IF g.ok
         THEN /\ vals' = (vals \ {fp}) \cup {[type |-> "Memfd", fd |-> fp.fd]}
              /\ UNCHANGED <<fdtable, objs>>
              /\ ret' = [NoRet("try_from_file") EXCEPT
                           !.res = "Left", !.fd = fp.fd, !.nsys = 1, !.sys = g.sys]
         ELSE /\ vals' = vals \ {fp}
              /\ fdtable' = [fdtable EXCEPT ![fp.fd] = Closed]
              /\ objs' = [objs EXCEPT ![fp.fd] = NoObj]
              /\ ret' = [NoRet("try_from_file") EXCEPT
                           !.res = "Right", !.fd = fp.fd, !.nsys = 1, !.sys = g.sys,
                           !.err = g.err]
    /\ UNCHANGED <<opts, limit, codec>>

\* Memfd::try_from_file(fp)
try_from_file(fp, env) ==
    /\ fp \in Files
    /\ LET g == file_get_seals(fdtable, objs, fp.fd, env) IN
         IF g.ok
         THEN /\ vals' = (vals \ {fp}) \cup {[type |-> "Memfd", fd |-> fp.fd]}
              /\ ret' = [NoRet("try_from_file") EXCEPT
                           !.res = "Left", !.fd = fp.fd, !.nsys = 1, !.sys = g.sys]
         ELSE /\ vals' = vals
              /\ ret' = [NoRet("try_from_file") EXCEPT
                           !.res = "Right", !.fd = fp.fd, !.nsys = 1, !.sys = g.sys,
                           !.err = g.err]
    /\ UNCHANGED <<opts, fdtable, objs, limit, codec>>

\* Memfd::as_file(&self): a borrow of the file, no new owner.
as_file(m) ==
    /\ m \in Memfds
    /\ ret' = [NoRet("as_file") EXCEPT !.res = "Ok", !.fd = m.fd]
    /\ UNCHANGED <<opts, vals, fdtable, objs, limit, codec>>

into_file_copies(m) ==
    /\ m \in Memfds
    /\ vals' = vals \cup {File(m.fd)}
    /\ ret' = [NoRet("into_file") EXCEPT !.res = "Ok", !.fd = m.fd]
    /\ UNCHANGED <<opts, fdtable, objs, limit, codec>>

\* Memfd::into_file(self): the Memfd is consumed, its file moves out.
into_file(m) ==
    /\ m \in Memfds
    /\ vals' = (vals \ {m}) \cup {File(m.fd)}
    /\ ret' = [NoRet("into_file") EXCEPT !.res = "Ok", !.fd = m.fd]
    /\ UNCHANGED <<opts, fdtable, objs, limit, codec>>

\* Memfd::seals(&self)
seals(m, env) ==
    /\ m \in Memfds
    /\ LET g == file_get_seals(fdtable, objs, m.fd, env) IN
         ret' = IF g.ok
                THEN [NoRet("seals") EXCEPT
                        !.res = "Ok", !.fd = m.fd, !.nsys = 1, !.sys = g.sys,
                        !.out = bitflags_to_seals(g.bits)]
                ELSE [NoRet("seals") EXCEPT
                        !.res = "Err", !.fd = m.fd, !.nsys = 1, !.sys = g.sys,
                        !.err = g.err]
    /\ UNCHANGED <<opts, vals, fdtable, objs, limit, codec>>

add_seals_result_retry(s) ==
    IF s.r < 0 /\ s.errno # "EINTR"
    THEN [res |-> "Err", err |-> SysError("AddSeals", s.errno)]
    ELSE [res |-> "Ok", err |-> NoErr]

add_seals_result_unchecked(s) == [res |-> "Ok", err |-> NoErr]

\* add_seals, after the syscall: if r < 0 { return Err(F_ADD_SEALS error) }; Ok(())
add_seals_result(s) ==
    IF s.r < 0
    THEN [res |-> "Err", err |-> SysError("AddSeals", s.errno)]
    ELSE [res |-> "Ok", err |-> NoErr]

\* Memfd::add_seals(&self, seals)
add_seals(m, set, env) ==
    /\ m \in Memfds
    /\ LET fd == m.fd
           flags == seals_to_bitflags(set)
           s == sys_fcntl_add_seals(fdtable, objs, fd, flags, env)
           out == add_seals_result(s)
       IN /\ objs' = IF s.r < 0 THEN objs ELSE [objs EXCEPT ![fd].seals = s.seals]
          /\ ret' = [NoRet("add_seals") EXCEPT
                       !.res = out.res, !.err = out.err, !.fd = fd,
                       !.nsys = 1, !.arg = set, !.flags = flags,
                       !.sys = [r |-> s.r, errno |-> s.errno]]
    /\ UNCHANGED <<opts, vals, fdtable, limit, codec>>

\* Memfd::add_seal(&self, seal): add_seals of the singleton set.
add_seal(m, seal, env) == add_seals(m, {seal}, env)

\* ---------------------------------------------------------------- specifications
\* The seal kinds the callers of the model pass (the codec is checked on all four).
SealInputs == {"SealWrite", "SealSeal"}

\* One memfd at a time, with every option, name, seal argument and syscall outcome.
Next ==
    \/ MemfdOptions_new
    \/ \E b \in BOOLEAN : allow_sealing(b)
    \/ \E b \in BOOLEAN : close_on_exec(b)
    \/ \E sz \in HugetlbInputs \cup {None} : hugetlb(sz)
    \/ \E name \in Names, env \in CreateEnv : create(name, env)
    \/ open_root
    \/ \E v \in vals : drop(v)
    \/ \E v \in vals, env \in GetSealsEnv : try_from_file(v, env)
    \/ \E v \in vals : as_file(v)
    \/ \E v \in vals : into_file(v)
    \/ \E v \in vals, env \in GetSealsEnv : seals(v, env)
    \/ \E v \in vals, set \in SUBSET SealInputs, env \in AddSealsEnv : add_seals(v, set, env)
    \/ \E v \in vals, seal \in SealInputs, env \in AddSealsEnv : add_seal(v, seal, env)

Spec == Init /\ [][Next]_vars

\* Several handles alive together: the name is that of the tests ("default"), the
\* builder only switches sealing, and the one seal added is Seal.
InitMany == InitWith(ManyFds)

NextMany ==
    \/ \E b \in BOOLEAN : allow_sealing(b)
    \/ \E env \in CreateEnv : create(<<97>>, env)
    \/ open_root
    \/ \E v \in vals : drop(v)
    \/ \E v \in vals, env \in GetSealsEnv : try_from_file(v, env)
    \/ \E v \in vals : as_file(v)
    \/ \E v \in vals : into_file(v)
    \/ \E v \in vals : seals(v, "none")
    \/ \E v \in vals : add_seal(v, "SealSeal", "none")

SpecMany == InitMany /\ [][NextMany]_vars

\* ---------------------------------------------------------------- the codec alone
\* The codec is pure: it is applied to every set of seal kinds and to every seal
\* word the kernel can return.
InitCodec ==
    /\ opts = MemfdOptions_default
    /\ vals = {}
    /\ fdtable = [fd \in FDs |-> Closed]
    /\ objs = [fd \in FDs |-> NoObj]
    /\ limit = SoloFds
    /\ ret = NoRet("init")
    /\ \E set \in SUBSET FileSeal, word \in SealWords :
         codec = [CodecOff EXCEPT !.pc = "start", !.set = set, !.word = word]

\* flags = seals_to_bitflags(set)
CodecEncode ==
    /\ codec.pc = "start"
    /\ codec' = [codec EXCEPT !.pc = "encoded", !.enc = seals_to_bitflags(codec.set)]
    /\ UNCHANGED <<opts, vals, fdtable, objs, limit, ret>>

\* bitflags_to_seals(flags), of the word just encoded
CodecDecode ==
    /\ codec.pc = "encoded"
    /\ codec' = [codec EXCEPT !.pc = "decoded", !.dec = bitflags_to_seals(codec.enc)]
    /\ UNCHANGED <<opts, vals, fdtable, objs, limit, ret>>

\* bitflags_to_seals(word), of a word the kernel returned
CodecDecodeWord ==
    /\ codec.pc = "decoded"
    /\ codec' = [codec EXCEPT !.pc = "done", !.wdec = bitflags_to_seals(codec.word)]
    /\ UNCHANGED <<opts, vals, fdtable, objs, limit, ret>>

NextCodec == CodecEncode \/ CodecDecode \/ CodecDecodeWord

SpecCodec == InitCodec /\ [][NextCodec]_vars

\* ---------------------------------------------------------------- claims
Owners(fd) == {v \in vals : v.fd = fd}

\* The seal set seals() reports through descriptor fd in the current state / the
\* next state.
Reported(fd) == bitflags_to_seals(objs[fd].seals)
ReportedNext(fd) == bitflags_to_seals(objs'[fd].seals)

\* C1: try_from_file returns Left(Memfd) on the same descriptor exactly when its
\* F_GET_SEALS probe succeeded and otherwise Right(the file it was given); it has
\* no third outcome, and in both branches the descriptor table is untouched and no
\* owner is added or lost.
C1_TryFromFile ==
    [][ret'.op = "try_from_file" =>
         /\ File(ret'.fd) \in vals
         /\ ret'.res \in {"Left", "Right"}
         /\ (ret'.res = "Left") <=> (ret'.sys.r >= 0)
         /\ fdtable' = fdtable /\ objs' = objs
         /\ ret'.res = "Left" =>
              vals' = (vals \ {File(ret'.fd)}) \cup {[type |-> "Memfd", fd |-> ret'.fd]}
         /\ ret'.res = "Right" => vals' = vals
         /\ IsOpen(fdtable', ret'.fd) /\ Cardinality({v \in vals' : v.fd = ret'.fd}) = 1
      ]_vars

\* A directory handle was refused and is still owned by the caller's File, open.
C1_Witness ==
    /\ ret.op = "try_from_file" /\ ret.res = "Right" /\ ret.err.errno = "EINVAL"
    /\ fdtable[ret.fd] = "dir"
    /\ File(ret.fd) \in vals

\* C2: every open descriptor has exactly one owning value and every owning value
\* holds an open descriptor; into_file leaves the File as the owner of the same
\* descriptor and the Memfd gone; as_file adds no owner; a drop closes the
\* descriptor, and no close or syscall ever meets a closed descriptor (EBADF).
C2_SingleOwner ==
    /\ \A fd \in FDs : IsOpen(fdtable, fd) => Cardinality(Owners(fd)) = 1
    /\ \A v \in vals : IsOpen(fdtable, v.fd)
    /\ ret.err.errno # "EBADF"
    /\ ret.op = "into_file" =>
         File(ret.fd) \in vals /\ Memfd_from_raw_fd(ret.fd) \notin vals
    /\ ret.op = "as_file" => Owners(ret.fd) = {Memfd_from_raw_fd(ret.fd)}
    /\ ret.op = "drop" => ret.res = "Ok" /\ ~IsOpen(fdtable, ret.fd)

\* into_file moved a descriptor to a File while another Memfd is alive.
C2_Witness ==
    /\ ret.op = "into_file"
    /\ File(ret.fd) \in vals
    /\ \E m \in Memfds : m.fd # ret.fd

\* C3: once F_SEAL_SEAL is in an object's seal word, the word never changes again
\* while the object lives, and every add_seals / add_seal on it, whatever set it
\* is given, returns the AddSeals error.
C3_SealIsFinal ==
    [][\A o \in FDs :
         (objs[o].live /\ SealFlags_SEAL \subseteq objs[o].seals) =>
            /\ objs'[o].live => objs'[o].seals = objs[o].seals
            /\ (ret'.op = "add_seals" /\ ret'.fd = o) =>
                 (ret'.res = "Err" /\ ret'.err.kind = "AddSeals")
      ]_vars

\* An object that allowed sealing got Seal added, and a later add_seals failed.
C3_Witness ==
    /\ ret.op = "add_seals" /\ ret.res = "Err" /\ ret.err.errno = "EPERM"
    /\ objs[ret.fd].live /\ objs[ret.fd].allow_sealing
    /\ "SealSeal" \in Reported(ret.fd)

\* C4: the set seals() reports never loses a seal; add_seals issues one syscall
\* with the encoding of its argument, and on success the reported set is the
\* previous one united with the argument, on failure it is unchanged.
C4_SealsGrow ==
    [][/\ \A o \in FDs :
            (objs[o].live /\ objs'[o].live) => Reported(o) \subseteq ReportedNext(o)
       /\ ret'.op = "add_seals" =>
            /\ objs[ret'.fd].live
            /\ ret'.nsys = 1
            /\ ret'.flags = UNION {FileSeal_bitflags(k) : k \in ret'.arg}
            /\ ret'.res = "Ok" =>
                 ReportedNext(ret'.fd) = Reported(ret'.fd) \cup ret'.arg
            /\ ret'.res = "Err" => ReportedNext(ret'.fd) = Reported(ret'.fd)
      ]_vars

\* A successful add_seals on an object that already had another seal.
C4_Witness ==
    /\ ret.op = "add_seals" /\ ret.res = "Ok" /\ objs[ret.fd].live
    /\ ret.arg # {}
    /\ Reported(ret.fd) \ ret.arg # {}

\* C5: decoding the encoding of a set of seal kinds gives the set back, the empty
\* set encodes to the empty word, and the decoding of a kernel word holds exactly
\* the kinds whose bit is in it, whatever its other bits are.
C5_RoundTrip ==
    /\ codec.pc \in {"decoded", "done"} => codec.dec = codec.set
    /\ (codec.pc \in {"encoded", "decoded", "done"} /\ codec.set = {}) => codec.enc = {}
    /\ codec.pc = "done" =>
         /\ codec.wdec = {k \in FileSeal : FileSeal_bitflags(k) \subseteq codec.word}
         /\ codec.wdec = bitflags_to_seals(codec.word \cap (0 .. 3))

\* Shrink and Grow went through the codec, and a word with an unknown bit was decoded.
C5_Witness ==
    /\ codec.pc = "done"
    /\ codec.set = {"SealShrink", "SealGrow"}
    /\ codec.dec = codec.set
    /\ 4 \in codec.word /\ codec.wdec = {"SealWrite"}

\* C6: a successful create returns a handle on a descriptor that was closed and
\* that no live value holds, referring to an object that did not exist before and
\* leaving every other descriptor, object and the options as they were; and
\* add_seals through one handle leaves the seal word seen through every other
\* handle as it was.
C6_Independent ==
    [][/\ (ret'.op = "create" /\ ret'.res = "Ok") =>
            /\ \A v \in vals : v.fd # ret'.fd
            /\ ~IsOpen(fdtable, ret'.fd) /\ fdtable'[ret'.fd] = "memfd"
            /\ ~objs[ret'.fd].live /\ objs'[ret'.fd].live
            /\ Memfd_from_raw_fd(ret'.fd) \in vals'
            /\ \A fd \in FDs \ {ret'.fd} :
                  fdtable'[fd] = fdtable[fd] /\ objs'[fd] = objs[fd]
            /\ opts' = opts
       /\ ret'.op = "add_seals" =>
            \A m \in Memfds :
               m.fd # ret'.fd =>
                 fdtable'[m.fd] = fdtable[m.fd] /\ objs'[m.fd] = objs[m.fd]
      ]_vars

\* Two handles made with the same options; a seal added through one only.
C6_Witness ==
    /\ ret.op = "add_seals" /\ ret.res = "Ok" /\ ret.arg # {}
    /\ \E m \in Memfds :
         /\ m.fd # ret.fd
         /\ Memfd_from_raw_fd(ret.fd) \in vals
         /\ objs[m.fd].live /\ objs[ret.fd].live
         /\ objs[m.fd].allow_sealing /\ objs[ret.fd].allow_sealing
         /\ objs[m.fd].seals = {} /\ objs[ret.fd].seals = ret.flags

C8_DefaultCloexec ==
    (ret.op = "create" /\ ret.res = "Ok") =>
        /\ opts = MemfdOptions_default => ret.cloexec
        /\ ~opts.cloexec => ~ret.cloexec

\* C9: an object created with allow_sealing = false keeps the seal word F_SEAL_SEAL
\* for as long as it lives, and no add_seals / add_seal on it succeeds.
C9_NoSealing ==
    \A o \in FDs :
        (objs[o].live /\ ~objs[o].allow_sealing) =>
            /\ objs[o].seals = SealFlags_SEAL
            /\ (ret.op = "add_seals" /\ ret.fd = o) => ret.res = "Err"

\* add_seals was refused on an object made by the default options.
C9_Witness ==
    /\ ret.op = "add_seals" /\ ret.res = "Err" /\ ret.sys.errno = "EPERM"
    /\ objs[ret.fd].live /\ ~objs[ret.fd].allow_sealing
    /\ ret.arg # {}

\* C10 as claimed: create, add_seals and seals never report an interrupted syscall.
C10_NeverInterrupted ==
    ret.op \in {"create", "add_seals", "seals"} => ret.err.errno # "EINTR"

\* C10 as the code has it: create, add_seals and seals issue their syscall at most
\* once and return; they succeed exactly when that one call did, and report its
\* errno, the interrupted one included, when it failed.
C10_SingleAttempt ==
    ret.op \in {"create", "add_seals", "seals"} =>
        /\ ret.nsys <= 1
        /\ ret.nsys = 1 =>
             /\ (ret.res = "Ok") <=> (ret.sys.r >= 0)
             /\ (ret.res = "Err") <=> (ret.sys.r < 0)
             /\ ret.sys.r < 0 => ret.err.errno = ret.sys.errno

\* add_seals was interrupted and reported it.
C10_Witness ==
    /\ ret.op = "add_seals" /\ ret.nsys = 1
    /\ ret.sys.errno = "EINTR" /\ ret.res = "Err" /\ ret.err.errno = "EINTR"

====
